---- MODULE Spec2Model ----
(***************************************************************************)
(* Mount-lifecycle orchestration of monofs: init_mfs and detach_mfs of     *)
(* src/lib/management/mfs.rs, together with the environment they act on    *)
(* (host directories, TCP listeners, the supervisor subprocess, the mount  *)
(* registry and the host mount table).                                     *)
(*                                                                         *)
(* A "call" c is one invocation of init_mfs on mount directory c,          *)
(* optionally followed by one invocation of detach_mfs started at or below *)
(* that directory.  Mount directory c has the adjacent metadata directory  *)
(* c (its path with the suffix appended) and database c inside it.         *)
(***************************************************************************)
EXTENDS Integers, FiniteSets, Sequences, TLC

\* The invocations of init_mfs (and detach_mfs); one that a behaviour does
\* not run stays at "off".
Calls == {1, 2}

\* Bounds of the model.
PortSpan == 2          \* the scanned port range is [start, start + PortSpan]
MaxPolls == 2          \* failed connection attempts that are counted
MaxBelow == 4          \* detach starts at most this many levels below the mount directory
RootDepth == 1         \* levels between a mount directory and the filesystem root
MaxStart == 2          \* the Port Allocator is called with a start port of 1 .. MaxStart
MaxCids == 3           \* entities in the store the Path Resolver works on
MaxFollowDepth == 2    \* the follow-depth budget is 0 .. MaxFollowDepth

\* Program constants.
DEFAULT_NFS_PORT == 1
MAX_MFS_ROOT_SEARCH_DEPTH == 4

Ports == DEFAULT_NFS_PORT .. (DEFAULT_NFS_PORT + PortSpan)

\* Owners of a listener, targets of a link: 0 is "none", a call's number is
\* that call's supervisor (or metadata directory), Foreign is anything else.
None == Cardinality({})
Foreign == Cardinality(Calls) + 1

VARIABLES
    pc,         \* pc[c]: position of call c in init_mfs / detach_mfs
    err,        \* err[c]: the error init_mfs returned, "none" if none (yet)
    failedAt,   \* failedAt[c]: the step of init_mfs that returned it
    ret,        \* ret[c]: the port init_mfs returned in Ok(port), None otherwise
    port,       \* port[c]: the local `port` of init_mfs (None before allocation)
    made,       \* made[c]: what exists on the host of mount directory c and its metadata
    entries,    \* entries[c]: the (unmounted) mount directory holds an entry
    fsLink,     \* fsLink[d]: the entry named MFS_LINK_FILENAME in the root of the
                \*   filesystem served from metadata directory d (None, a metadata
                \*   directory, or Foreign: some other existing entry)
    mounted,    \* mounted[c]: owner of the server mounted at mount directory c, or None
    binary,     \* binary[c]: <<source, found>> of the resolved mfsrun path
    sup,        \* sup[c]: the supervisor spawned by call c
    supArgs,    \* supArgs[c]: the --port / --fs-db-path / --mount-dir it was given
    row,        \* row[d]: registry row of database d for mount directory d
    listener,   \* listener[p]: owner of the TCP listener on port p
    spawns,     \* spawns[c]: supervisor subprocesses spawned by init
    polls,      \* polls[c]: failed connection attempts (capped)
    connected,  \* connected[c]: the port on which a connection succeeded, or None
    mounts,     \* mounts[c]: <<port, outcome>> of every run of the mount primitive
    linkMade,   \* linkMade[c]: init created the metadata symlink
    dstart,     \* dstart[c]: levels below mount directory c at which detach starts
    droot,      \* droot[c]: the root find_mfs_root returned
    ddb,        \* ddb[c]: the metadata directory whose database detach uses
    derr,       \* derr[c]: the error detach_mfs returned, "none" if none (yet)
    umounts,    \* umounts[c]: <<directory, outcome>> of every run of the unmount primitive
    queried,    \* queried[c]: result of the registry query: "Some", "None", "Err"; "none" before
    dpid,       \* dpid[c]: the PID the query returned
    probed,     \* probed[c]: outcome of the liveness check, "none" before
    kills,      \* kills[c]: <<pid, outcome>> of every signal::kill
    termed,     \* termed[s]: supervisor s received SIGTERM
    scanHost,   \* the host a call of the Port Allocator is given
    scanStart,  \* its start port
    scanBusy,   \* the ports on which no listener can be bound
    scanOut,    \* its result ("pending" before the call)
    store,      \* store[e]: entity e of the store: a non-link, or a CidLink and its target
    linkStart,  \* the entity at which the resolution of a CidLink chain starts
    maxDepth,   \* the follow-depth budget the resolution is given
    cur,        \* the entity the resolution has reached
    budget,     \* the remaining follow-depth budget
    outcome     \* "resolving", "Ok" or the error of the resolution

vars == <<pc, err, failedAt, ret, port, made, entries, fsLink, mounted, binary, sup,
          supArgs, row, listener, spawns, polls, connected, mounts, linkMade,
          dstart, droot, ddb, derr, umounts, queried, dpid, probed, kills, termed,
          scanHost, scanStart, scanBusy, scanOut,
          store, linkStart, maxDepth, cur, budget, outcome>>

scanVars == <<scanHost, scanStart, scanBusy, scanOut>>
resolveVars == <<store, linkStart, maxDepth, cur, budget, outcome>>

\* What no step of init_mfs, detach_mfs or the supervisor changes.
envVars == <<entries, scanVars, resolveVars>>
dVars == <<dstart, droot, ddb, derr, umounts, queried, dpid, probed, kills, termed>>

InitPcs == {"start", "data", "port", "log", "dbfile", "schema", "blocks", "resolve",
            "spawn", "m_dir", "m_wait", "m_mount", "link"}
DetachPcs == {"d_find", "d_dbpath", "d_umount", "d_query", "d_probe", "d_kill"}

\* The registry row of a database: no row, a row with a NULL pid, or a pid.
NoRow == 0 - 2
NullPid == 0 - 1

Alive(s) == sup[s] \in {"spawned", "recorded", "listening"}

\* `return Err(e)` / the `?` operator in init_mfs.
InitFail(c, e) ==
    /\ pc' = [pc EXCEPT ![c] = "returned"]
    /\ err' = [err EXCEPT ![c] = e]
    /\ failedAt' = [failedAt EXCEPT ![c] = pc[c]]

\* Fall through to the next statement of init_mfs.
Goto(c, l) ==
    /\ pc' = [pc EXCEPT ![c] = l]
    /\ UNCHANGED <<err, failedAt>>

(***************************************************************************)
(* External collaborators of init_mfs.                                     *)
(***************************************************************************)


\* ScanPorts scanning the range from its end: the last bindable port.
RECURSIVE ScanPorts_FromEnd(_, _, _)
ScanPorts_FromEnd(l, p, end) ==
    IF p > end THEN None
    ELSE IF l[end] = None THEN end
    ELSE ScanPorts_FromEnd(l, p, end - 1)

\* management::find_available_port: scan [p, end] forward for the first port
\* on which a listener can be bound; None when the range is exhausted.
RECURSIVE ScanPorts(_, _, _)
ScanPorts(l, p, end) ==
    IF p > end THEN None
    ELSE IF l[p] = None THEN p
    ELSE ScanPorts(l, p + 1, end)

find_available_port(l, start) == ScanPorts(l, start, start + PortSpan)

\* microsandbox_utils::path::resolve_env_path: the path comes from the
\* environment variable when it is set, from the default otherwise; a missing
\* file is an error of the utils crate that names the path and its source.
resolve_env_path(src, found) ==
    IF found THEN [ok |-> TRUE, src |-> src]
    ELSE [ok |-> FALSE, src |-> src]

\* impl From<MicrosandboxUtilsError> for FsError
FromUtilsError(e) == "SupervisorError"

(***************************************************************************)
(* init_mfs, one action per fallible step.                                 *)
(***************************************************************************)

\* fs::create_dir_all(&mount_dir) and fs::canonicalize(&mount_dir)
CreateMountDir(c) ==
    /\ pc[c] = "start"
    /\ \/ /\ made' = [made EXCEPT ![c] = @ \cup {"mount"}]
          /\ Goto(c, "data")
       \/ /\ made' = made
          /\ InitFail(c, "IoError")
    /\ UNCHANGED <<envVars, dVars, ret, port, fsLink, mounted, binary, sup, supArgs,
                   row, listener, spawns, polls, connected, mounts, linkMade>>

\* fs::create_dir_all(&mfs_data_dir)
CreateDataDir(c) ==
    /\ pc[c] = "data"
    /\ \/ /\ made' = [made EXCEPT ![c] = @ \cup {"data"}]
          /\ Goto(c, "port")
       \/ /\ made' = made
          /\ InitFail(c, "IoError")
    /\ UNCHANGED <<envVars, dVars, ret, port, fsLink, mounted, binary, sup, supArgs,
                   row, listener, spawns, polls, connected, mounts, linkMade>>

\* let port = find_available_port(DEFAULT_HOST, DEFAULT_NFS_PORT).await?
FindPort(c) ==
    /\ pc[c] = "port"
    /\ LET p == find_available_port(listener, DEFAULT_NFS_PORT) IN
       IF p = None
       THEN /\ InitFail(c, "NoAvailablePorts")
            /\ port' = port
       ELSE /\ port' = [port EXCEPT ![c] = p]
            /\ Goto(c, "log")
    /\ UNCHANGED <<envVars, dVars, ret, made, fsLink, mounted, binary, sup, supArgs,
                   row, listener, spawns, polls, connected, mounts, linkMade>>


\* CreateLogDir creating the block-store directory in the same step, before
\* the database file.
CreateLogDir_WithBlocks(c) ==
    /\ pc[c] = "log"
    /\ \/ /\ made' = [made EXCEPT ![c] = @ \cup {"log", "blocks"}]
          /\ Goto(c, "dbfile")
       \/ /\ made' = made
          /\ InitFail(c, "IoError")
    /\ UNCHANGED <<envVars, dVars, ret, port, fsLink, mounted, binary, sup, supArgs,
                   row, listener, spawns, polls, connected, mounts, linkMade>>

\* fs::create_dir_all(&log_dir)
CreateLogDir(c) ==
    /\ pc[c] = "log"
    /\ \/ /\ made' = [made EXCEPT ![c] = @ \cup {"log"}]
          /\ Goto(c, "dbfile")
       \/ /\ made' = made
          /\ InitFail(c, "IoError")
    /\ UNCHANGED <<envVars, dVars, ret, port, fsLink, mounted, binary, sup, supArgs,
                   row, listener, spawns, polls, connected, mounts, linkMade>>

\* if !fs_db_path.exists() { fs::File::create(&fs_db_path).await?; }
CreateDbFile(c) ==
    /\ pc[c] = "dbfile"
    /\ IF "db" \in made[c]
       THEN /\ made' = made
            /\ Goto(c, "schema")
       ELSE \/ /\ made' = [made EXCEPT ![c] = @ \cup {"db"}]
               /\ Goto(c, "schema")
            \/ /\ made' = made
               /\ InitFail(c, "IoError")
    /\ UNCHANGED <<envVars, dVars, ret, port, fsLink, mounted, binary, sup, supArgs,
                   row, listener, spawns, polls, connected, mounts, linkMade>>

\* db::init_db(&fs_db_path, &FS_DB_MIGRATOR).await?
InitDb(c) ==
    /\ pc[c] = "schema"
    /\ \/ /\ made' = [made EXCEPT ![c] = @ \cup {"schema"}]
          /\ Goto(c, "blocks")
       \/ /\ made' = made
          /\ \E e \in {"Database", "MigrationError"} : InitFail(c, e)
    /\ UNCHANGED <<envVars, dVars, ret, port, fsLink, mounted, binary, sup, supArgs,
                   row, listener, spawns, polls, connected, mounts, linkMade>>

\* fs::create_dir_all(&blocks_dir)
CreateBlocksDir(c) ==
    /\ pc[c] = "blocks"
    /\ \/ /\ made' = [made EXCEPT ![c] = @ \cup {"blocks"}]
          /\ Goto(c, "resolve")
       \/ /\ made' = made
          /\ InitFail(c, "IoError")
    /\ UNCHANGED <<envVars, dVars, ret, port, fsLink, mounted, binary, sup, supArgs,
                   row, listener, spawns, polls, connected, mounts, linkMade>>

\* ResolveExe with the `?` dropped: a missing binary is spawned all the same.
ResolveExe_NoAbort(c) ==
    /\ pc[c] = "resolve"
    /\ \E src \in {"environment variable", "default path"}, found \in BOOLEAN :
         /\ binary' = [binary EXCEPT ![c] = <<src, found>>]
         /\ Goto(c, "spawn")
    /\ UNCHANGED <<envVars, dVars, ret, port, made, fsLink, mounted, sup, supArgs,
                   row, listener, spawns, polls, connected, mounts, linkMade>>

\* let mfsrun_path = resolve_env_path(MFSRUN_EXE_ENV_VAR, &*DEFAULT_MFSRUN_EXE_PATH)?
ResolveExe(c) ==
    /\ pc[c] = "resolve"
    /\ \E src \in {"environment variable", "default path"}, found \in BOOLEAN :
         LET r == resolve_env_path(src, found) IN
         /\ binary' = [binary EXCEPT ![c] = <<src, found>>]
         /\ IF r.ok THEN Goto(c, "spawn") ELSE InitFail(c, FromUtilsError(r))
    /\ UNCHANGED <<envVars, dVars, ret, port, made, fsLink, mounted, sup, supArgs,
                   row, listener, spawns, polls, connected, mounts, linkMade>>

\* Command::new(mfsrun_path).arg("supervisor")...spawn()?
Spawn(c) ==
    /\ pc[c] = "spawn"
    /\ \/ /\ sup' = [sup EXCEPT ![c] = "spawned"]
          /\ supArgs' = [supArgs EXCEPT ![c] = [port |-> port[c], db |-> c, mdir |-> c]]
          /\ spawns' = [spawns EXCEPT ![c] = @ + 1]
          /\ Goto(c, "m_dir")
       \/ /\ UNCHANGED <<sup, supArgs, spawns>>
          /\ InitFail(c, "IoError")
    /\ UNCHANGED <<envVars, dVars, ret, port, made, fsLink, mounted, binary,
                   row, listener, polls, connected, mounts, linkMade>>

(***************************************************************************)
(* mount_fs(&mount_dir, DEFAULT_HOST, port), called by init_mfs.           *)
(***************************************************************************)

\* MountDirCheck without the test of the directory's entries.
MountDirCheck_NoEmptyTest(c) ==
    /\ pc[c] = "m_dir"
    /\ \/ InitFail(c, "IoError")
       \/ Goto(c, "m_wait")
    /\ UNCHANGED <<envVars, dVars, ret, port, made, fsLink, mounted, binary, sup, supArgs,
                   row, listener, spawns, polls, connected, mounts, linkMade>>


\* MountDirCheck run only once the port accepts a connection: the wait
\* placed before the test of the directory's entries.
MountDirCheck_AfterWait(c) ==
    /\ pc[c] = "m_dir"
    /\ listener[port[c]] # None
    /\ connected' = [connected EXCEPT ![c] = port[c]]
    /\ \/ InitFail(c, "IoError")
       \/ IF entries[c]
          THEN InitFail(c, "MountPointNotEmpty")
          ELSE Goto(c, "m_wait")
    /\ UNCHANGED <<envVars, dVars, ret, port, made, fsLink, mounted, binary, sup, supArgs,
                   row, listener, spawns, polls, mounts, linkMade>>

\* fs::create_dir_all(&mount_dir); read_dir: an entry means MountPointNotEmpty
MountDirCheck(c) ==
    /\ pc[c] = "m_dir"
    /\ \/ InitFail(c, "IoError")
       \/ IF entries[c]
          THEN InitFail(c, "MountPointNotEmpty")
          ELSE Goto(c, "m_wait")
    /\ UNCHANGED <<envVars, dVars, ret, port, made, fsLink, mounted, binary, sup, supArgs,
                   row, listener, spawns, polls, connected, mounts, linkMade>>

\* PollPort with the loop left on a failed connection as well.
PollPort_NoRetry(c) ==
    /\ pc[c] = "m_wait"
    /\ IF listener[port[c]] # None
       THEN /\ connected' = [connected EXCEPT ![c] = port[c]]
            /\ polls' = polls
       ELSE /\ polls' = [polls EXCEPT ![c] = IF @ < MaxPolls THEN @ + 1 ELSE @]
            /\ connected' = connected
    /\ Goto(c, "m_mount")
    /\ UNCHANGED <<envVars, dVars, ret, port, made, fsLink, mounted, binary, sup, supArgs,
                   row, listener, spawns, mounts, linkMade>>

\* wait_for_port: one iteration of the loop around TcpStream::connect
PollPort(c) ==
    /\ pc[c] = "m_wait"
    /\ IF listener[port[c]] # None
       THEN /\ connected' = [connected EXCEPT ![c] = port[c]]
            /\ polls' = polls
            /\ Goto(c, "m_mount")
       ELSE /\ polls' = [polls EXCEPT ![c] = IF @ < MaxPolls THEN @ + 1 ELSE @]
            /\ UNCHANGED <<connected, pc, err, failedAt>>
    /\ UNCHANGED <<envVars, dVars, ret, port, made, fsLink, mounted, binary, sup, supArgs,
                   row, listener, spawns, mounts, linkMade>>

\* MountCmd with the test of status.success() dropped.
MountCmd_IgnoresStatus(c) ==
    /\ pc[c] = "m_mount"
    /\ \/ /\ InitFail(c, "IoError")
          /\ UNCHANGED <<mounts, mounted>>
       \/ /\ listener[port[c]] \in Calls
          /\ mounts' = [mounts EXCEPT ![c] = Append(@, <<port[c], "exit0">>)]
          /\ mounted' = [mounted EXCEPT ![c] = listener[port[c]]]
          /\ Goto(c, "link")
       \/ /\ listener[port[c]] \in Calls
          /\ mounts' = [mounts EXCEPT ![c] = Append(@, <<port[c], "nonzero">>)]
          /\ mounted' = [mounted EXCEPT ![c] = listener[port[c]]]
          /\ Goto(c, "link")
    /\ UNCHANGED <<envVars, dVars, ret, port, made, fsLink, binary, sup, supArgs,
                   row, listener, spawns, polls, connected, linkMade>>


\* MountCmd with a rollback: when the mount fails the supervisor that init
\* spawned is killed.
MountCmd_KillsOnFailure(c) ==
    /\ pc[c] = "m_mount"
    /\ \/ /\ InitFail(c, "IoError")
          /\ sup' = [sup EXCEPT ![c] = "exited"]
          /\ listener' = [p \in Ports |-> IF listener[p] = c THEN None ELSE listener[p]]
          /\ UNCHANGED <<mounts, mounted>>
       \/ /\ listener[port[c]] \in Calls
          /\ mounts' = [mounts EXCEPT ![c] = Append(@, <<port[c], "exit0">>)]
          /\ mounted' = [mounted EXCEPT ![c] = listener[port[c]]]
          /\ Goto(c, "link")
          /\ UNCHANGED <<sup, listener>>
       \/ /\ mounts' = [mounts EXCEPT ![c] = Append(@, <<port[c], "nonzero">>)]
          /\ mounted' = mounted
          /\ sup' = [sup EXCEPT ![c] = "exited"]
          /\ listener' = [p \in Ports |-> IF listener[p] = c THEN None ELSE listener[p]]
          /\ InitFail(c, "MountFailed")
    /\ UNCHANGED <<envVars, dVars, ret, port, made, fsLink, binary, supArgs,
                   row, spawns, polls, connected, linkMade>>

\* Command::new("mount") ... .status().await? and the test of status.success()
MountCmd(c) ==
    /\ pc[c] = "m_mount"
    /\ \/ /\ InitFail(c, "IoError")
          /\ UNCHANGED <<mounts, mounted>>
       \/ /\ listener[port[c]] \in Calls
          /\ mounts' = [mounts EXCEPT ![c] = Append(@, <<port[c], "exit0">>)]
          /\ mounted' = [mounted EXCEPT ![c] = listener[port[c]]]
          /\ Goto(c, "link")
       \/ /\ mounts' = [mounts EXCEPT ![c] = Append(@, <<port[c], "nonzero">>)]
          /\ mounted' = mounted
          /\ InitFail(c, "MountFailed")
    /\ UNCHANGED <<envVars, dVars, ret, port, made, fsLink, binary, sup, supArgs,
                   row, listener, spawns, polls, connected, linkMade>>

\* The entry named MFS_LINK_FILENAME that mount directory c shows.
LinkAt(c) == IF mounted[c] = None THEN None ELSE fsLink[mounted[c]]

\* link_path.exists(): the entry is there and the server answers
LinkExists(c) == mounted[c] # None /\ Alive(mounted[c]) /\ LinkAt(c) # None


\* CreateLink with the symlink pointing at something else than mfs_data_dir.
CreateLink_WrongTarget(c) ==
    /\ pc[c] = "link"
    /\ IF LinkExists(c)
       THEN /\ UNCHANGED <<fsLink, linkMade>>
            /\ ret' = [ret EXCEPT ![c] = port[c]]
            /\ Goto(c, "returned")
       ELSE \/ /\ Alive(mounted[c])
               /\ LinkAt(c) = None
               /\ fsLink' = [fsLink EXCEPT ![mounted[c]] = Foreign]
               /\ linkMade' = [linkMade EXCEPT ![c] = TRUE]
               /\ ret' = [ret EXCEPT ![c] = port[c]]
               /\ Goto(c, "returned")
            \/ /\ UNCHANGED <<fsLink, linkMade, ret>>
               /\ InitFail(c, "IoError")
    /\ UNCHANGED <<envVars, dVars, port, made, mounted, binary, sup, supArgs,
                   row, listener, spawns, polls, connected, mounts>>

\* if !link_path.exists() { fs::symlink(&mfs_data_dir, &link_path).await?; } Ok(port)
CreateLink(c) ==
    /\ pc[c] = "link"
    /\ IF LinkExists(c)
       THEN /\ UNCHANGED <<fsLink, linkMade>>
            /\ ret' = [ret EXCEPT ![c] = port[c]]
            /\ Goto(c, "returned")
       ELSE \/ /\ Alive(mounted[c])
               /\ LinkAt(c) = None
               /\ fsLink' = [fsLink EXCEPT ![mounted[c]] = c]
               /\ linkMade' = [linkMade EXCEPT ![c] = TRUE]
               /\ ret' = [ret EXCEPT ![c] = port[c]]
               /\ Goto(c, "returned")
            \/ /\ UNCHANGED <<fsLink, linkMade, ret>>
               /\ InitFail(c, "IoError")
    /\ UNCHANGED <<envVars, dVars, port, made, mounted, binary, sup, supArgs,
                   row, listener, spawns, polls, connected, mounts>>

(***************************************************************************)
(* The supervisor subprocess (mfsrun supervisor), as far as init and       *)
(* detach observe it.                                                      *)
(***************************************************************************)

\* The supervisor records its own PID in the registry of --fs-db-path.
SupRecord(s) ==
    /\ sup[s] = "spawned"
    /\ sup' = [sup EXCEPT ![s] = "recorded"]
    /\ row' = [row EXCEPT ![supArgs[s].db] = s]
    /\ UNCHANGED <<envVars, dVars, pc, err, failedAt, ret, port, made, fsLink, mounted, binary,
                   supArgs, listener, spawns, polls, connected, mounts, linkMade>>

\* The server binds --port, if the port is still free.
SupListen(s) ==
    /\ sup[s] = "recorded"
    /\ listener[supArgs[s].port] = None
    /\ sup' = [sup EXCEPT ![s] = "listening"]
    /\ listener' = [listener EXCEPT ![supArgs[s].port] = s]
    /\ UNCHANGED <<envVars, dVars, pc, err, failedAt, ret, port, made, fsLink, mounted, binary,
                   supArgs, row, spawns, polls, connected, mounts, linkMade>>

\* The supervisor exits (crash, failed bind, or after SIGTERM); its listener
\* goes away; its row stays, is deleted, or loses its PID.
SupExit(s) ==
    /\ Alive(s)
    /\ sup' = [sup EXCEPT ![s] = "exited"]
    /\ listener' = [p \in Ports |-> IF listener[p] = s THEN None ELSE listener[p]]
    /\ \E r \in {row[s], NoRow, NullPid} :
         /\ (r # row[s]) => (row[s] = s)
         /\ row' = [row EXCEPT ![s] = r]
    /\ UNCHANGED <<envVars, dVars, pc, err, failedAt, ret, port, made, fsLink, mounted, binary,
                   supArgs, spawns, polls, connected, mounts, linkMade>>

(***************************************************************************)
(* detach_mfs.                                                             *)
(***************************************************************************)

\* `return Err(e)` / the `?` operator in detach_mfs.
DetachFail(c, e) ==
    /\ pc' = [pc EXCEPT ![c] = "detached"]
    /\ derr' = [derr EXCEPT ![c] = e]

\* detach_mfs reaches its final Ok(()).
DetachOk(c) ==
    /\ pc' = [pc EXCEPT ![c] = "detached"]
    /\ derr' = derr

DGoto(c, l) ==
    /\ pc' = [pc EXCEPT ![c] = l]
    /\ derr' = derr

\* The directory r shows the mount-metadata marker.
MarkerAt(r) == LinkAt(r) # None

\* management::find::find_mfs_root: walk upward from a directory `below`
\* levels under mount directory r (negative: above it), `depth` parents
\* visited so far.  The result is the root found, or an error.
RECURSIVE SearchUp(_, _, _)
SearchUp(r, below, depth) ==
    IF depth >= MAX_MFS_ROOT_SEARCH_DEPTH
    THEN [root |-> None, error |-> "MaxMfsRootSearchDepthReached"]
    ELSE IF below = 0 /\ MarkerAt(r)
    THEN [root |-> r, error |-> "none"]
    ELSE IF below = 0 - RootDepth
    THEN [root |-> None, error |-> "NoMfsRootFound"]
    ELSE SearchUp(r, below - 1, depth + 1)

find_mfs_root(r, below) == SearchUp(r, below, 0)

\* detach_mfs is called with a start path at or below mount directory c.
StartDetach(c) ==
    /\ pc[c] = "returned"
    /\ \E b \in 0 .. MaxBelow : dstart' = [dstart EXCEPT ![c] = b]
    /\ DGoto(c, "d_find")
    /\ UNCHANGED <<envVars, err, failedAt, ret, port, made, fsLink, mounted, binary, sup, supArgs,
                   row, listener, spawns, polls, connected, mounts, linkMade,
                   droot, ddb, umounts, queried, dpid, probed, kills, termed>>

\* FindRoot with the `?` dropped: on a failed search detach goes on with the
\* directory it was started for.
FindRoot_NoAbort(c) ==
    /\ pc[c] = "d_find"
    /\ droot' = [droot EXCEPT ![c] = c]
    /\ DGoto(c, "d_dbpath")
    /\ UNCHANGED <<envVars, err, failedAt, ret, port, made, fsLink, mounted, binary, sup, supArgs,
                   row, listener, spawns, polls, connected, mounts, linkMade,
                   dstart, ddb, umounts, queried, dpid, probed, kills, termed>>

\* let mfs_root = find::find_mfs_root(&start_path).await?
FindRoot(c) ==
    /\ pc[c] = "d_find"
    /\ LET f == find_mfs_root(c, dstart[c]) IN
       IF f.error = "none"
       THEN /\ droot' = [droot EXCEPT ![c] = f.root]
            /\ DGoto(c, "d_dbpath")
       ELSE /\ droot' = droot
            /\ DetachFail(c, f.error)
    /\ UNCHANGED <<envVars, err, failedAt, ret, port, made, fsLink, mounted, binary, sup, supArgs,
                   row, listener, spawns, polls, connected, mounts, linkMade,
                   dstart, ddb, umounts, queried, dpid, probed, kills, termed>>

\* get_fs_db_path: fs::read_link(&mfs_link).await?, joined with FS_DB_FILENAME
get_fs_db_path(c) ==
    /\ pc[c] = "d_dbpath"
    /\ \/ /\ LinkAt(droot[c]) # None
          /\ ddb' = [ddb EXCEPT ![c] = LinkAt(droot[c])]
          /\ DGoto(c, "d_umount")
       \/ /\ ddb' = ddb
          /\ DetachFail(c, "IoError")
    /\ UNCHANGED <<envVars, err, failedAt, ret, port, made, fsLink, mounted, binary, sup, supArgs,
                   row, listener, spawns, polls, connected, mounts, linkMade,
                   dstart, droot, umounts, queried, dpid, probed, kills, termed>>

\* mount_dir.exists() in unmount_fs: true while the server answers; once the
\* server is gone the stat of the mount point may also fail.
MountPointExists(r, answer) == Alive(mounted[r]) \/ answer

\* unmount_fs with the test of status.success() dropped.
unmount_fs_IgnoresStatus(c) ==
    /\ pc[c] = "d_umount"
    /\ LET r == droot[c] IN
       \E answer \in BOOLEAN :
         IF ~MountPointExists(r, answer)
         THEN /\ DetachFail(c, "IoError:NotFound")
              /\ UNCHANGED <<umounts, mounted>>
         ELSE \/ /\ DetachFail(c, "IoError")
                 /\ UNCHANGED <<umounts, mounted>>
              \/ /\ umounts' = [umounts EXCEPT ![c] = Append(@, <<r, "nonzero">>)]
                 /\ mounted' = mounted
                 /\ DGoto(c, "d_query")
              \/ /\ umounts' = [umounts EXCEPT ![c] = Append(@, <<r, "exit0">>)]
                 /\ mounted' = [mounted EXCEPT ![r] = None]
                 /\ DGoto(c, "d_query")
    /\ UNCHANGED <<envVars, err, failedAt, ret, port, made, fsLink, binary, sup, supArgs,
                   row, listener, spawns, polls, connected, mounts, linkMade,
                   dstart, droot, ddb, queried, dpid, probed, kills, termed>>

\* unmount_fs(&mfs_root, force).await?
unmount_fs(c) ==
    /\ pc[c] = "d_umount"
    /\ LET r == droot[c] IN
       \E answer \in BOOLEAN :
         IF ~MountPointExists(r, answer)
         THEN /\ DetachFail(c, "IoError:NotFound")
              /\ UNCHANGED <<umounts, mounted>>
         ELSE \/ /\ DetachFail(c, "IoError")
                 /\ UNCHANGED <<umounts, mounted>>
              \/ /\ umounts' = [umounts EXCEPT ![c] = Append(@, <<r, "nonzero">>)]
                 /\ mounted' = mounted
                 /\ DetachFail(c, "UnmountFailed")
              \/ /\ umounts' = [umounts EXCEPT ![c] = Append(@, <<r, "exit0">>)]
                 /\ mounted' = [mounted EXCEPT ![r] = None]
                 /\ DGoto(c, "d_query")
    /\ UNCHANGED <<envVars, err, failedAt, ret, port, made, fsLink, binary, sup, supArgs,
                   row, listener, spawns, polls, connected, mounts, linkMade,
                   dstart, droot, ddb, queried, dpid, probed, kills, termed>>

\* SELECT supervisor_pid FROM filesystems WHERE mount_dir = ?  on database db
RowFor(db, mdir) == IF db = mdir THEN row[db] ELSE NoRow

\* get_supervisor_pid with the Err(e) arm returning the error instead of logging it.
get_supervisor_pid_Propagates(c) ==
    /\ pc[c] = "d_query"
    /\ \/ /\ queried' = [queried EXCEPT ![c] = "Err"]
          /\ dpid' = dpid
          /\ DetachFail(c, "Custom")
       \/ LET r == RowFor(ddb[c], droot[c]) IN
          IF r \in {NoRow, NullPid}
          THEN /\ queried' = [queried EXCEPT ![c] = "None"]
               /\ dpid' = dpid
               /\ DetachOk(c)
          ELSE /\ queried' = [queried EXCEPT ![c] = "Some"]
               /\ dpid' = [dpid EXCEPT ![c] = r]
               /\ DGoto(c, "d_probe")
    /\ UNCHANGED <<envVars, err, failedAt, ret, port, made, fsLink, mounted, binary, sup, supArgs,
                   row, listener, spawns, polls, connected, mounts, linkMade,
                   dstart, droot, ddb, umounts, probed, kills, termed>>

\* match get_supervisor_pid(&db_path, &mfs_root).await { ... }
get_supervisor_pid(c) ==
    /\ pc[c] = "d_query"
    /\ \/ /\ queried' = [queried EXCEPT ![c] = "Err"]   \* pool or query failure, logged
          /\ dpid' = dpid
          /\ DetachOk(c)
       \/ LET r == RowFor(ddb[c], droot[c]) IN
          IF r \in {NoRow, NullPid}
          THEN /\ queried' = [queried EXCEPT ![c] = "None"]
               /\ dpid' = dpid
               /\ DetachOk(c)
          ELSE /\ queried' = [queried EXCEPT ![c] = "Some"]
               /\ dpid' = [dpid EXCEPT ![c] = r]
               /\ DGoto(c, "d_probe")
    /\ UNCHANGED <<envVars, err, failedAt, ret, port, made, fsLink, mounted, binary, sup, supArgs,
                   row, listener, spawns, polls, connected, mounts, linkMade,
                   dstart, droot, ddb, umounts, probed, kills, termed>>


\* ProbePid with every arm of the liveness check going on to the kill.
ProbePid_AlwaysKill(c) ==
    /\ pc[c] = "d_probe"
    /\ \E r \in {"Ok", "ESRCH", "Err"} :
         /\ (r = "Ok") => Alive(dpid[c])
         /\ (r = "ESRCH") => ~Alive(dpid[c])
         /\ probed' = [probed EXCEPT ![c] = r]
         /\ DGoto(c, "d_kill")
    /\ UNCHANGED <<envVars, err, failedAt, ret, port, made, fsLink, mounted, binary, sup, supArgs,
                   row, listener, spawns, polls, connected, mounts, linkMade,
                   dstart, droot, ddb, umounts, queried, dpid, kills, termed>>

\* match nix::unistd::getpgid(Some(pid)) { Ok(_) | Err(ESRCH) | Err(e) }
ProbePid(c) ==
    /\ pc[c] = "d_probe"
    /\ \E r \in {"Ok", "ESRCH", "Err"} :
         /\ (r = "Ok") => Alive(dpid[c])
         /\ (r = "ESRCH") => ~Alive(dpid[c])
         /\ probed' = [probed EXCEPT ![c] = r]
         /\ IF r = "Ok" THEN DGoto(c, "d_kill") ELSE DetachOk(c)
    /\ UNCHANGED <<envVars, err, failedAt, ret, port, made, fsLink, mounted, binary, sup, supArgs,
                   row, listener, spawns, polls, connected, mounts, linkMade,
                   dstart, droot, ddb, umounts, queried, dpid, kills, termed>>

\* KillPid with the Ok(_) arm of the liveness check sending nothing.
KillPid_NoSignal(c) ==
    /\ pc[c] = "d_kill"
    /\ DetachOk(c)
    /\ UNCHANGED <<envVars, err, failedAt, ret, port, made, fsLink, mounted, binary, sup, supArgs,
                   row, listener, spawns, polls, connected, mounts, linkMade,
                   dstart, droot, ddb, umounts, queried, dpid, probed, kills, termed>>


\* KillPid that also deletes the registry row of the process it signalled.
KillPid_DeletesRow(c) ==
    /\ pc[c] = "d_kill"
    /\ \/ /\ Alive(dpid[c])
          /\ kills' = [kills EXCEPT ![c] = Append(@, <<dpid[c], "sent">>)]
          /\ termed' = [termed EXCEPT ![dpid[c]] = TRUE]
          /\ row' = [row EXCEPT ![droot[c]] = NoRow]
       \/ /\ kills' = [kills EXCEPT ![c] = Append(@, <<dpid[c], "failed">>)]
          /\ termed' = termed
          /\ row' = row
    /\ DetachOk(c)
    /\ UNCHANGED <<envVars, err, failedAt, ret, port, made, fsLink, mounted, binary, sup, supArgs,
                   listener, spawns, polls, connected, mounts, linkMade,
                   dstart, droot, ddb, umounts, queried, dpid, probed>>

\* if let Err(e) = signal::kill(pid, Signal::SIGTERM) { warn } else { info }
KillPid(c) ==
    /\ pc[c] = "d_kill"
    /\ \/ /\ Alive(dpid[c])
          /\ kills' = [kills EXCEPT ![c] = Append(@, <<dpid[c], "sent">>)]
          /\ termed' = [termed EXCEPT ![dpid[c]] = TRUE]
       \/ /\ kills' = [kills EXCEPT ![c] = Append(@, <<dpid[c], "failed">>)]
          /\ termed' = termed
    /\ DetachOk(c)
    /\ UNCHANGED <<envVars, err, failedAt, ret, port, made, fsLink, mounted, binary, sup, supArgs,
                   row, listener, spawns, polls, connected, mounts, linkMade,
                   dstart, droot, ddb, umounts, queried, dpid, probed>>

(***************************************************************************)
(* Initial states and specifications.                                      *)
(***************************************************************************)


\* mfs_data_dir.join(FS_DB_FILENAME): the database path of metadata directory
\* d, in init_mfs (fs_db_path) and in get_fs_db_path (db_path).
FsDbPath(d) == <<d, "FS_DB_FILENAME">>


\* The state of the mounts, which the Port Allocator and the Path Resolver,
\* called on their own, leave alone.
mountVars == <<pc, err, failedAt, ret, port, made, entries, fsLink, mounted, binary, sup,
               supArgs, row, listener, spawns, polls, connected, mounts, linkMade, dVars>>

(***************************************************************************)
(* The Port Allocator, called with a host and a start port.                *)
(***************************************************************************)

Hosts == {"127.0.0.1", "localhost"}

\* The ports a scan from a start port of 1 .. MaxStart can reach.
ScanRange == 1 .. (MaxStart + PortSpan)

\* Err(FsError::NoAvailablePorts { host, start, end })
NoAvailablePorts(host, start, end) ==
    [error |-> "NoAvailablePorts", host |-> host, start |-> start, end |-> end, port |-> None]

\* Ok(port)
PortFound(p) == [error |-> "none", host |-> "", start |-> None, end |-> None, port |-> p]

\* No result yet / no call.
NoPort(e) == [error |-> e, host |-> "", start |-> None, end |-> None, port |-> None]

\* find_available_port(host, start).await
Allocate ==
    /\ scanOut.error = "pending"
    /\ LET l == [p \in ScanRange |-> IF p \in scanBusy THEN Foreign ELSE None]
           p == find_available_port(l, scanStart)
       IN  scanOut' = IF p = None
                      THEN NoAvailablePorts(scanHost, scanStart, scanStart + PortSpan)
                      ELSE PortFound(p)
    /\ UNCHANGED <<mountVars, scanHost, scanStart, scanBusy, resolveVars>>

(***************************************************************************)
(* The Path Resolver on a chain of CidLinks: the entities of the store are *)
(* non-links (files, directories) or CidLinks; the target of a CidLink is  *)
(* an entity of the store or a CID that cannot be loaded.                  *)
(***************************************************************************)

Cids == 1 .. MaxCids
NonLink == None
Absent == MaxCids + 1

\* Dereference with the budget decremented first and the failure raised as
\* soon as the decrement leaves nothing.
Dereference_FailsAtZero ==
    /\ outcome = "resolving"
    /\ store[cur] # NonLink
    /\ IF budget <= 1
       THEN /\ outcome' = "MaxFollowDepthReached"
            /\ budget' = None
            /\ cur' = cur
       ELSE IF store[cur] = Absent
       THEN /\ outcome' = "BrokenSymCidLink"
            /\ UNCHANGED <<cur, budget>>
       ELSE /\ cur' = store[cur]
            /\ budget' = budget - 1
            /\ outcome' = outcome
    /\ UNCHANGED <<mountVars, scanVars, store, linkStart, maxDepth>>

\* The entity reached is a CidLink: with no budget left the resolution fails
\* MaxFollowDepthReached; otherwise the target is loaded (BrokenSymCidLink if
\* it cannot be) and the budget is decremented.
Dereference ==
    /\ outcome = "resolving"
    /\ store[cur] # NonLink
    /\ IF budget = 0
       THEN /\ outcome' = "MaxFollowDepthReached"
            /\ UNCHANGED <<cur, budget>>
       ELSE IF store[cur] = Absent
       THEN /\ outcome' = "BrokenSymCidLink"
            /\ UNCHANGED <<cur, budget>>
       ELSE /\ cur' = store[cur]
            /\ budget' = budget - 1
            /\ outcome' = outcome
    /\ UNCHANGED <<mountVars, scanVars, store, linkStart, maxDepth>>

\* The entity reached is not a link: it is the result.
ReturnEntity ==
    /\ outcome = "resolving"
    /\ store[cur] = NonLink
    /\ outcome' = "Ok"
    /\ UNCHANGED <<mountVars, scanVars, store, linkStart, maxDepth, cur, budget>>

AllMade == {"mount", "data", "log", "db", "schema", "blocks"}

\* What does not depend on the host: the calls of cs are about to start.
InitCalls(cs) ==
    /\ pc = [c \in Calls |-> IF c \in cs THEN "start" ELSE "off"]
    /\ err = [c \in Calls |-> "none"]
    /\ failedAt = [c \in Calls |-> "none"]
    /\ ret = [c \in Calls |-> None]
    /\ port = [c \in Calls |-> None]
    /\ mounted = [c \in Calls |-> None]
    /\ binary = [c \in Calls |-> <<"none", FALSE>>]
    /\ sup = [c \in Calls |-> "none"]
    /\ supArgs = [c \in Calls |-> [port |-> None, db |-> None, mdir |-> None]]
    /\ spawns = [c \in Calls |-> 0]
    /\ polls = [c \in Calls |-> 0]
    /\ connected = [c \in Calls |-> None]
    /\ mounts = [c \in Calls |-> <<>>]
    /\ linkMade = [c \in Calls |-> FALSE]
    /\ dstart = [c \in Calls |-> 0]
    /\ droot = [c \in Calls |-> None]
    /\ ddb = [c \in Calls |-> None]
    /\ derr = [c \in Calls |-> "none"]
    /\ umounts = [c \in Calls |-> <<>>]
    /\ queried = [c \in Calls |-> "none"]
    /\ dpid = [c \in Calls |-> None]
    /\ probed = [c \in Calls |-> "none"]
    /\ kills = [c \in Calls |-> <<>>]
    /\ termed = [c \in Calls |-> FALSE]

\* Neither the Port Allocator nor the Path Resolver is called on its own.
ScanIdle ==
    /\ scanHost = "127.0.0.1" /\ scanStart = DEFAULT_NFS_PORT
    /\ scanBusy = {} /\ scanOut = NoPort("idle")

ResolveIdle ==
    /\ store = [e \in Cids |-> NonLink]
    /\ linkStart = 1 /\ cur = linkStart
    /\ maxDepth = None /\ budget = None
    /\ outcome = "idle"

\* The host before the calls: the mount directory is absent, present and
\* empty, or present with an entry; the metadata directory is absent or left
\* by an earlier mount, whose filesystem may then hold an entry with the
\* link's name; other processes listen on some ports of the range.
InitHost(cs) ==
    /\ listener \in [Ports -> {None, Foreign}]
    /\ made \in [Calls -> {{}, {"mount"}, AllMade}]
    /\ entries \in [Calls -> BOOLEAN]
    /\ fsLink \in [Calls -> {None, Foreign} \cup Calls]
    /\ row \in [Calls -> {NoRow, NullPid}]
    /\ \A c \in Calls :
         /\ c \notin cs => made[c] = {} /\ row[c] = NoRow
         /\ entries[c] => "mount" \in made[c]
         /\ fsLink[c] \in {None, Foreign, c}
         /\ fsLink[c] # None => made[c] = AllMade
         /\ row[c] # NoRow => made[c] = AllMade

Init == InitCalls({1}) /\ InitHost({1}) /\ ScanIdle /\ ResolveIdle

InitStep(c) ==
    \/ CreateMountDir(c)
    \/ CreateDataDir(c)
    \/ FindPort(c)
    \/ CreateLogDir(c)
    \/ CreateDbFile(c)
    \/ InitDb(c)
    \/ CreateBlocksDir(c)
    \/ ResolveExe(c)
    \/ Spawn(c)
    \/ MountDirCheck(c)
    \/ PollPort(c)
    \/ MountCmd(c)
    \/ CreateLink(c)

SupStep(c) ==
    \/ SupRecord(c)
    \/ SupListen(c)
    \/ SupExit(c)

DetachStep(c) ==
    \/ StartDetach(c)
    \/ FindRoot(c)
    \/ get_fs_db_path(c)
    \/ unmount_fs(c)
    \/ get_supervisor_pid(c)
    \/ ProbePid(c)
    \/ KillPid(c)

Next == \E c \in Calls : InitStep(c) \/ SupStep(c) \/ DetachStep(c)

\* One init, then possibly one detach, of one mount directory.
Spec == Init /\ [][Next]_vars

\* Two concurrent calls of init_mfs on different, fresh mount directories.
ConcInit ==
    /\ InitCalls(Calls)
    /\ InitHost(Calls)
    /\ \A c \in Calls : made[c] = {}
    /\ ScanIdle /\ ResolveIdle

ConcNext == \E c \in Calls : InitStep(c) \/ SupStep(c)

ConcSpec == ConcInit /\ [][ConcNext]_vars

\* The same, with the scheduling the async runtime gives a call: a task that
\* can take its next step eventually takes it.
FairSpec ==
    /\ Init
    /\ [][Next]_vars
    /\ \A c \in Calls : WF_vars(PollPort(c)) /\ WF_vars(MountCmd(c))

\* No mount is in progress and nothing else listens.
HostIdle ==
    /\ InitCalls({}) /\ InitHost({})
    /\ listener = [p \in Ports |-> None]

\* One call of the Port Allocator, for every host, start port and set of
\* occupied ports.
AllocInit ==
    /\ HostIdle /\ ResolveIdle
    /\ scanHost \in Hosts
    /\ scanStart \in 1 .. MaxStart
    /\ scanBusy \in SUBSET ScanRange
    /\ scanOut = NoPort("pending")

AllocNext == Allocate

AllocSpec == AllocInit /\ [][AllocNext]_vars

\* One resolution, for every store, start entity and follow-depth budget.
ResolveInit ==
    /\ HostIdle /\ ScanIdle
    /\ store \in [Cids -> {NonLink, Absent} \cup Cids]
    /\ linkStart \in Cids
    /\ maxDepth \in 0 .. MaxFollowDepth
    /\ cur = linkStart
    /\ budget = maxDepth
    /\ outcome = "resolving"

ResolveNext == Dereference \/ ReturnEntity

\* The resolver is a loop of one task: it takes its next step.
ResolveSpec == ResolveInit /\ [][ResolveNext]_vars /\ WF_vars(ResolveNext)

(***************************************************************************)
(* Properties.                                                             *)
(***************************************************************************)

\* init_mfs has returned and detach_mfs has not been called yet.
Returned(c) == pc[c] = "returned"
InitOk(c) == Returned(c) /\ err[c] = "none"

\* init_mfs has returned at some time.
InitOver(c) == pc[c] \in {"returned", "detached"} \cup DetachPcs

\* What Ok(port) stands for, the metadata symlink apart.
OkParts(c) ==
    /\ spawns[c] = 1
    /\ port[c] # None
    /\ connected[c] = port[c]
    /\ mounts[c] = << <<port[c], "exit0">> >>
    /\ mounted[c] # None
    /\ ret[c] = port[c]
    /\ supArgs[c].port = port[c]

\* C1 as stated: whenever init returns Ok(port), the supervisor was spawned
\* exactly once, the port accepted a connection, the mount primitive ran
\* exactly once and exited 0, the metadata symlink (the link to this mount's
\* metadata directory) is in the mount directory, and the port returned is
\* the one allocated, passed as --port, polled and mounted.
C1_AsStated == \A c \in Calls : InitOk(c) => OkParts(c) /\ LinkAt(c) = c

\* C1, amended: as above, but of the link only that an entry of its name is
\* in the mount directory; it is the link to this mount's metadata directory
\* whenever init created it (an entry found there is left as it is).
C1_OkIsComplete ==
    \A c \in Calls :
      InitOk(c) => /\ OkParts(c)
                   /\ LinkAt(c) # None
                   /\ linkMade[c] => LinkAt(c) = c

\* C1 witness: an init returned Ok after creating the link itself.
C1_Witness == \E c \in Calls : InitOk(c) /\ linkMade[c] /\ polls[c] > 0

\* The binary that init resolved was missing.
BinaryMissing(c) == binary[c][1] # "none" /\ ~binary[c][2]

StepsBeforeSpawn == {"data", "port", "log", "dbfile", "schema", "blocks", "resolve"}

\* C2: a failing step of init aborts the rest and init returns an error: no
\* spawn and no mount after a failure before the spawn, no wait and no mount
\* after a failed spawn, MountFailed and no link after a non-zero mount.
C2_FailureAborts ==
    \A c \in Calls :
      /\ failedAt[c] # "none" => InitOver(c) /\ err[c] # "none" /\ ret[c] = None
      /\ failedAt[c] \in StepsBeforeSpawn =>
           spawns[c] = 0 /\ sup[c] = "none" /\ mounts[c] = <<>> /\ connected[c] = None
      /\ BinaryMissing(c) =>
           failedAt[c] = "resolve" /\ spawns[c] = 0 /\ sup[c] = "none" /\ mounts[c] = <<>>
      /\ failedAt[c] = "spawn" =>
           /\ spawns[c] = 0 /\ polls[c] = 0 /\ connected[c] = None
           /\ mounts[c] = <<>> /\ ~linkMade[c]
      /\ (\E i \in 1 .. Len(mounts[c]) : mounts[c][i][2] = "nonzero") =>
           /\ err[c] = "MountFailed" /\ failedAt[c] = "m_mount"
           /\ ~linkMade[c] /\ mounted[c] = None /\ Len(mounts[c]) = 1

\* C2 witness: a mount that exited non-zero, after an earlier failed poll.
C2_Witness == \E c \in Calls : err[c] = "MountFailed" /\ spawns[c] = 1 /\ polls[c] > 0

\* C3 as stated (I/O errors of the host set aside): init on an existing
\* mount directory that holds an entry fails with MountPointNotEmpty, never
\* invokes the mount primitive and never creates the link.
C3_AsStated ==
    \A c \in Calls :
      (entries[c] /\ InitOver(c) /\ err[c] # "IoError") =>
          err[c] = "MountPointNotEmpty" /\ mounts[c] = <<>> /\ ~linkMade[c]

\* C3, amended: init on an existing mount directory that holds an entry
\* never returns Ok, never invokes the mount primitive and never creates the
\* link; it fails with MountPointNotEmpty once every step before the test of
\* the directory (the spawn of the supervisor included) has succeeded and the
\* directory could be read, and with the error of the failing step otherwise.
C3_NotEmpty ==
    \A c \in Calls :
      (entries[c] /\ InitOver(c)) =>
          /\ err[c] # "none" /\ ret[c] = None
          /\ mounts[c] = <<>> /\ mounted[c] = None /\ connected[c] = None
          /\ ~linkMade[c]
          /\ failedAt[c] \in StepsBeforeSpawn \cup {"start", "spawn", "m_dir"}
          /\ failedAt[c] = "m_dir" <=> spawns[c] = 1
          /\ (failedAt[c] = "m_dir" /\ err[c] # "IoError") => err[c] = "MountPointNotEmpty"
          /\ err[c] = "MountPointNotEmpty" => failedAt[c] = "m_dir"

\* C3 witness: init failed with MountPointNotEmpty.
C3_Witness == \E c \in Calls : entries[c] /\ err[c] = "MountPointNotEmpty"

\* C4 as stated: when the mfsrun binary is missing, init fails with the
\* error MfsrunBinaryNotFound (carrying the path and its source) and spawns
\* no supervisor.
C4_AsStated ==
    \A c \in Calls :
      BinaryMissing(c) => err[c] = "MfsrunBinaryNotFound" /\ spawns[c] = 0

\* detach_mfs has returned.
Detached(c) == pc[c] = "detached"

\* The unmount primitive of this detach exited 0.
UnmountDone(c) == umounts[c] # <<>> /\ umounts[c][Len(umounts[c])][2] = "exit0"

\* C5: once the root was found, the link read and the unmount done, detach
\* returns Ok whatever the registry and the supervisor do: no row, a NULL
\* pid, a failed query, a process that is gone, a failed liveness check or a
\* failed kill.
C5_BestEffort ==
    \A c \in Calls :
      /\ (Detached(c) /\ UnmountDone(c)) => derr[c] = "none"
      /\ UnmountDone(c) => droot[c] # None /\ ddb[c] # None

\* C5 witnesses: detach returned Ok although the kill failed.
C5_Witness ==
    \E c \in Calls :
      /\ Detached(c) /\ derr[c] = "none" /\ UnmountDone(c)
      /\ kills[c] = << <<dpid[c], "failed">> >>

\* C6: a failed unmount step (mount point missing: no unmount primitive run;
\* non-zero exit: UnmountFailed; the primitive could not be run) makes detach
\* return that error without a registry query and without a signal.
C6_UnmountFailureAborts ==
    \A c \in Calls :
      /\ (Detached(c) /\ ddb[c] # None /\ ~UnmountDone(c)) =>
           /\ derr[c] \in {"IoError:NotFound", "UnmountFailed", "IoError"}
           /\ queried[c] = "none" /\ dpid[c] = None /\ probed[c] = "none" /\ kills[c] = <<>>
           /\ \A s \in Calls : ~termed[s]
           /\ mounted[droot[c]] # None
      /\ derr[c] = "IoError:NotFound" => umounts[c] = <<>>
      /\ derr[c] = "UnmountFailed" <=> (umounts[c] # <<>> /\ ~UnmountDone(c))

\* C6 witness: the unmount primitive exited non-zero while the supervisor runs.
C6_Witness ==
    \E c \in Calls : Detached(c) /\ derr[c] = "UnmountFailed" /\ Alive(c)

\* The search of C7, seen at the step that ends it.
C7_SearchStep(c) ==
    (pc[c] = "d_find" /\ pc'[c] # "d_find") =>
       /\ (MarkerAt(c) /\ dstart[c] < MAX_MFS_ROOT_SEARCH_DEPTH) =>
             pc'[c] = "d_dbpath" /\ droot'[c] = c
       /\ pc'[c] # "d_dbpath" =>
             /\ pc'[c] = "detached" /\ droot'[c] = None
             /\ derr'[c] \in {"NoMfsRootFound", "MaxMfsRootSearchDepthReached"}
       /\ (~MarkerAt(c) /\ dstart[c] + RootDepth < MAX_MFS_ROOT_SEARCH_DEPTH) =>
             derr'[c] = "NoMfsRootFound"
       /\ dstart[c] >= MAX_MFS_ROOT_SEARCH_DEPTH =>
             derr'[c] = "MaxMfsRootSearchDepthReached"

\* What detach did after a failed, or for a successful, search.
C7_AfterSearch(c) ==
    /\ derr[c] \in {"NoMfsRootFound", "MaxMfsRootSearchDepthReached"} =>
         /\ Detached(c) /\ droot[c] = None /\ ddb[c] = None
         /\ umounts[c] = <<>> /\ queried[c] = "none" /\ kills[c] = <<>>
    /\ \A i \in 1 .. Len(umounts[c]) : umounts[c][i][1] = c /\ droot[c] = c
    /\ Len(umounts[c]) <= 1

\* C7: detach started below an MFS root (up to three levels, and as far as
\* the search depth reaches) finds that root and unmounts no other
\* directory; without a marker up to the filesystem root it fails with
\* NoMfsRootFound, beyond the search depth with
\* MaxMfsRootSearchDepthReached, and then runs no unmount, no query, no kill.
C7_RootSearch ==
    /\ [](\A c \in Calls : C7_AfterSearch(c))
    /\ [][\A c \in Calls : C7_SearchStep(c)]_vars

\* C7 witness: detach started three levels below the root and unmounted it.
C7_Witness ==
    \E c \in Calls : dstart[c] = 3 /\ umounts[c] = << <<c, "exit0">> >> /\ Detached(c)

\* A TCP connection to the port of call c succeeds.
PortOpen(c) == port[c] # None /\ listener[port[c]] # None

\* The mount step of call c has run (the primitive ran, or could not be run).
MountStepRun(c) == mounts[c] # <<>> \/ failedAt[c] = "m_mount"

\* The wait of C8, seen at the step that ends it.
C8_LeavesWaitOnly(c) ==
    (pc[c] = "m_wait" /\ pc'[c] # "m_wait") =>
        /\ PortOpen(c)
        /\ connected'[c] = port[c]
        /\ pc'[c] = "m_mount" /\ err'[c] = "none" /\ ret'[c] = None

\* C8: the wait for the port never fails and never gives up: init leaves it
\* only by a successful connection and only to go on to the mount, the mount
\* primitive never runs before a connection succeeded, and a call that waits
\* while the port from some time on always accepts connections eventually
\* runs the mount step.
C8_PortWait ==
    /\ [](\A c \in Calls : MountStepRun(c) => connected[c] = port[c] /\ port[c] # None)
    /\ [][\A c \in Calls : C8_LeavesWaitOnly(c)]_vars
    /\ \A c \in Calls : [](pc[c] = "m_wait" => (<>[]PortOpen(c) => <>MountStepRun(c)))

\* C8 witness: the mount primitive ran after connections had failed twice.
C8_Witness == \E c \in Calls : polls[c] > 1 /\ mounts[c] # <<>>

\* C9 as stated: concurrent inits of different mount directories get
\* different ports, and each mount is served by the supervisor its own init
\* spawned.
C9_AsStated ==
    /\ \A c, d \in Calls : (c # d /\ port[c] # None /\ port[d] # None) => port[c] # port[d]
    /\ \A c \in Calls : mounted[c] # None => mounted[c] = c

C10_NothingFailed(c) ==
    /\ ddb[c] = c
    /\ queried[c] # "Err"
    /\ probed[c] # "Err"
    /\ \A i \in 1 .. Len(kills[c]) : kills[c][i][2] # "failed"

C13_AsStated ==
    \A c \in Calls :
      (err[c] = "MountPointNotEmpty" \/ pc[c] = "m_wait") => connected[c] = port[c]

\* C13, amended: the emptiness check of the mount directory comes before the
\* wait for the port: MountPointNotEmpty is returned after the spawn without
\* any connection attempt, whether or not the port is reachable; the wait
\* starts only for an empty directory, and it completes before the mount
\* primitive is run.
C13_CheckBeforeWait ==
    \A c \in Calls :
      /\ err[c] = "MountPointNotEmpty" =>
           /\ failedAt[c] = "m_dir" /\ spawns[c] = 1
           /\ polls[c] = 0 /\ connected[c] = None /\ mounts[c] = <<>>
      /\ (polls[c] > 0 \/ connected[c] # None) => ~entries[c]
      /\ mounts[c] # <<>> => connected[c] = port[c]

\* C13 witness: MountPointNotEmpty returned while nothing listens on the port.
C13_Witness ==
    \E c \in Calls :
      Returned(c) /\ err[c] = "MountPointNotEmpty" /\ listener[port[c]] = None /\ Alive(c)

\* The database step of init failed: the file could not be created or the
\* migrations could not be applied.
DbFailed(c) == failedAt[c] \in {"dbfile", "schema"}

\* C18 as stated: both metadata subdirectories (logs and block store) are
\* created before the database file and its migrations, so both exist
\* whenever database creation or migration fails.
C18_AsStated ==
    \A c \in Calls : DbFailed(c) => {"log", "blocks"} \subseteq made[c]

\* A step that creates the block-store directory comes after the migrations.
C18_BlocksStep(c) ==
    ("blocks" \in made'[c] /\ "blocks" \notin made[c]) =>
        /\ pc[c] = "blocks"
        /\ {"data", "log", "db", "schema"} \subseteq made[c]

\* C18, amended: the log directory is created before the database file and
\* its migrations, the block-store directory only after the migrations
\* succeeded: whenever database creation or migration fails the log
\* directory exists, and the block-store directory was not created by this
\* call.
C18_DirsAroundDb ==
    /\ [](\A c \in Calls :
            /\ DbFailed(c) => {"mount", "data", "log"} \subseteq made[c]
            /\ (DbFailed(c) /\ "blocks" \in made[c]) => made[c] = AllMade
            /\ ("db" \in made[c] /\ pc[c] \in InitPcs \ {"start", "data", "port", "log"})
                 => "log" \in made[c])
    /\ [][\A c \in Calls : C18_BlocksStep(c)]_vars

\* C18 witness: the migrations failed under a fresh metadata directory: the
\* log directory is there, the block-store directory is not.
C18_Witness ==
    \E c \in Calls :
      Returned(c) /\ failedAt[c] = "schema" /\ "log" \in made[c] /\ "blocks" \notin made[c]

\* A step of call c that runs signal::kill.
C14_KillStep(c) ==
    kills'[c] # kills[c] =>
        /\ kills[c] = <<>> /\ Len(kills'[c]) = 1
        /\ kills'[c][1][1] = dpid[c]
        /\ UnmountDone(c) /\ queried[c] = "Some" /\ probed[c] = "Ok"

\* C14: a call of detach sends SIGTERM at most once, only to the PID it read
\* from the registry row keyed by the root it located, only after the
\* unmount succeeded and only after the liveness check of that PID
\* succeeded; when the check reports ESRCH or any other error nothing is
\* sent, and no process is signalled in any other way.
C14_SignalOnce ==
    /\ [](\A c \in Calls :
            /\ Len(kills[c]) <= 1
            /\ kills[c] # <<>> =>
                 /\ UnmountDone(c) /\ queried[c] = "Some" /\ probed[c] = "Ok"
                 /\ kills[c][1][1] = dpid[c]
            /\ dpid[c] # None =>
                 /\ queried[c] = "Some" /\ droot[c] # None
                 /\ ddb[c] = droot[c] /\ dpid[c] = droot[c]
            /\ probed[c] \in {"ESRCH", "Err"} => kills[c] = <<>>
            /\ termed[c] => \E d \in Calls : kills[d] = << <<c, "sent">> >>)
    /\ [][\A c \in Calls : C14_KillStep(c)]_vars

\* C14 witness: detach sent one SIGTERM, after the unmount and a successful
\* liveness check.
C14_Witness ==
    \E c \in Calls :
      /\ Detached(c) /\ UnmountDone(c) /\ probed[c] = "Ok"
      /\ kills[c] = << <<dpid[c], "sent">> >>

\* init_mfs failed after it had spawned the supervisor.
FailedAfterSpawn(c) == Returned(c) /\ err[c] # "none" /\ spawns[c] > 0

\* What a step of init_mfs leaves alone: it sends no signal, it changes the
\* supervisor only by spawning it, it does not unmount and removes nothing
\* it provisioned.
C15_InitStepKeeps(c) ==
    InitStep(c) =>
        /\ termed' = termed /\ kills' = kills /\ umounts' = umounts
        /\ sup'[c] # sup[c] => (pc[c] = "spawn" /\ sup[c] = "none" /\ sup'[c] = "spawned")
        /\ listener' = listener
        /\ mounted[c] # None => mounted'[c] = mounted[c]
        /\ made[c] \subseteq made'[c]

\* C15: init never signals or terminates the supervisor it spawned and rolls
\* nothing back: a failure after the spawn (MountPointNotEmpty, MountFailed,
\* an I/O error of the mount step, a failed creation of the symlink) returns
\* the error with the supervisor as it was, and a failed creation of the
\* symlink also leaves the filesystem mounted.
C15_NoRollback ==
    /\ [](\A c \in Calls :
            /\ FailedAfterSpawn(c) =>
                 /\ failedAt[c] \in {"m_dir", "m_mount", "link"}
                 /\ err[c] \in {"MountPointNotEmpty", "MountFailed", "IoError"}
                 /\ spawns[c] = 1 /\ sup[c] # "none" /\ ~termed[c]
                 /\ ret[c] = None /\ umounts[c] = <<>>
            /\ (FailedAfterSpawn(c) /\ failedAt[c] = "link") =>
                 /\ mounted[c] # None
                 /\ mounts[c] = << <<port[c], "exit0">> >>
                 /\ ~linkMade[c])
    /\ [][\A c \in Calls : C15_InitStepKeeps(c)]_vars

\* C15 witness: the creation of the symlink failed; init returned the error
\* with the supervisor serving and the filesystem mounted.
C15_Witness ==
    \E c \in Calls :
      /\ FailedAfterSpawn(c) /\ failedAt[c] = "link"
      /\ sup[c] = "listening" /\ mounted[c] = c

\* A step of the orchestrator (init_mfs or detach_mfs) leaves every registry
\* row as it is; a row changes only in a step of the serving subprocess.
C16_OrchestratorStep ==
    /\ (\E c \in Calls : InitStep(c) \/ DetachStep(c)) => row' = row
    /\ row' # row => \E s \in Calls : SupRecord(s) \/ SupExit(s)

\* C16: the orchestrator never writes the registry: no step of init or
\* detach inserts, updates or deletes a row, and detach only reads the
\* recorded PID; rows change only through the serving subprocess, so the row
\* and its PID are as the supervisor left them after detach, also when
\* detach signalled the supervisor.
C16_RegistryFrame ==
    /\ [](\A c \in Calls :
            /\ sup[c] \in {"none", "spawned"} => row[c] \in {NoRow, NullPid}
            /\ sup[c] \in {"recorded", "listening"} => row[c] = c
            /\ row[c] \in {NoRow, NullPid, c})
    /\ [][C16_OrchestratorStep]_vars

\* C16 witness: detach signalled the supervisor, and the row still holds the
\* PID the supervisor recorded.
C16_Witness ==
    \E c \in Calls :
      /\ Detached(c) /\ kills[c] = << <<c, "sent">> >> /\ termed[c]
      /\ queried[c] = "Some" /\ row[c] = c

\* A step in which init creates the metadata symlink: after the mount
\* primitive exited 0, with no entry of that name in the mounted root, and
\* with this mount's metadata directory as its target.
C17_LinkStep(c) ==
    (linkMade'[c] /\ ~linkMade[c]) =>
        /\ pc[c] = "link"
        /\ mounts[c] = << <<port[c], "exit0">> >> /\ mounted[c] # None
        /\ LinkAt(c) = None
        /\ fsLink'[mounted[c]] = c

\* A step in which detach reads the symlink comes before any unmount.
C17_ReadStep(c) == ddb'[c] # ddb[c] => (umounts[c] = <<>> /\ pc[c] = "d_dbpath")

\* C17: init creates the symlink only after the mount succeeded and only
\* when no entry of that name exists; when init created it, the database
\* path detach derives (the link's target joined with the database file
\* name) is the path of the database init created, migrated and passed to
\* the supervisor as --fs-db-path; and detach reads the symlink before it
\* unmounts.
C17_LinkRoundTrip ==
    /\ [](\A c \in Calls :
            /\ linkMade[c] => /\ mounts[c] = << <<port[c], "exit0">> >>
                              /\ {"db", "schema"} \subseteq made[c]
                              /\ ret[c] = port[c]
            /\ (linkMade[c] /\ ddb[c] # None) =>
                 /\ FsDbPath(ddb[c]) = FsDbPath(c)
                 /\ FsDbPath(ddb[c]) = FsDbPath(supArgs[c].db)
            /\ umounts[c] # <<>> => ddb[c] # None)
    /\ [][\A c \in Calls : C17_LinkStep(c) /\ C17_ReadStep(c)]_vars

\* C17 witness: detach read the link init created, and then unmounted.
C17_Witness ==
    \E c \in Calls :
      /\ linkMade[c] /\ ddb[c] = c /\ UnmountDone(c)
      /\ FsDbPath(ddb[c]) = FsDbPath(supArgs[c].db)

\* The ports of the scanned range on which a listener can be bound.
FreePorts == (scanStart .. (scanStart + PortSpan)) \ scanBusy

\* C12: the Port Allocator returns the first (lowest) port of the range
\* [start, start + PortSpan] on which a listener can be bound, and fails with
\* NoAvailablePorts{host, start, end} exactly when every port of the range is
\* occupied: a fully occupied [P, P+2] gives NoAvailablePorts{host, P, P+2},
\* and [P, P+2] with only P+1 free gives P+1.
C12_FirstFreePort ==
    scanOut.error # "pending" =>
        /\ scanOut.error \in {"none", "NoAvailablePorts"}
        /\ scanOut.error = "NoAvailablePorts" <=> FreePorts = {}
        /\ FreePorts = {} =>
             scanOut = NoAvailablePorts(scanHost, scanStart, scanStart + PortSpan)
        /\ FreePorts # {} =>
             /\ scanOut.port \in FreePorts
             /\ \A p \in FreePorts : scanOut.port <= p
        /\ FreePorts = {scanStart + 1} => scanOut = PortFound(scanStart + 1)

\* C12 witness: of the three ports of the range only the middle one is free,
\* and it is the port returned.
C12_Witness ==
    /\ scanOut.error = "none" /\ scanOut.port = scanStart + 1
    /\ (scanStart .. (scanStart + 2)) \ scanBusy = {scanStart + 1}
    /\ FreePorts = {scanStart + 1}

\* The outcome of following the CidLinks from entity e, found by walking the
\* store: the number of links up to the first non-link, Cyclic when the
\* links never end, Broken when they end at a CID that cannot be loaded.
Cyclic == 0 - 1
Broken == 0 - 2

RECURSIVE ChainLength(_, _, _)
ChainLength(s, e, n) ==
    IF s[e] = NonLink THEN 0
    ELSE IF s[e] = Absent THEN Broken
    ELSE IF n = 0 THEN Cyclic
    ELSE LET r == ChainLength(s, s[e], n - 1) IN
         IF r < 0 THEN r ELSE r + 1

\* The entity n links after e.
RECURSIVE ChainEnd(_, _, _)
ChainEnd(s, e, n) == IF n = 0 THEN e ELSE ChainEnd(s, s[e], n - 1)

\* What holds at every time of a resolution with chain length L.
C11_Budget ==
    outcome # "idle" =>
      LET L == ChainLength(store, linkStart, MaxCids) IN
        /\ budget \in 0 .. maxDepth
        /\ outcome = "MaxFollowDepthReached" => budget = 0
        /\ (outcome # "resolving" /\ L >= 0 /\ L <= maxDepth) =>
             /\ outcome = "Ok"
             /\ maxDepth - budget = L
             /\ cur = ChainEnd(store, linkStart, L) /\ store[cur] = NonLink
        /\ (outcome # "resolving" /\ L > maxDepth) => outcome = "MaxFollowDepthReached"
        /\ (outcome # "resolving" /\ L = Cyclic) => outcome = "MaxFollowDepthReached"

\* A dereference takes one unit of the budget and moves to the link's target.
C11_Decrement ==
    (outcome = "resolving" /\ budget' # budget) =>
        /\ budget' = budget - 1
        /\ store[cur] \in Cids /\ cur' = store[cur]

\* C11: resolution through a chain of L CidLinks with follow-depth budget D
\* succeeds for every L <= D and returns the final non-link entity; for
\* L = D + 1 (and every longer chain) it fails with MaxFollowDepthReached;
\* each dereference decrements the remaining budget, and the failure is
\* raised at a link met with a budget of zero; resolution over a cyclic
\* chain terminates, with MaxFollowDepthReached.
C11_FollowDepth ==
    /\ []C11_Budget
    /\ [][C11_Decrement]_vars
    /\ <>(outcome # "resolving")

\* C11 witness: a chain of D + 1 links, D > 0, failed MaxFollowDepthReached
\* after D dereferences.
C11_Witness ==
    /\ outcome = "MaxFollowDepthReached" /\ maxDepth > 0 /\ budget = 0
    /\ ChainLength(store, linkStart, MaxCids) = maxDepth + 1

====
